---- MODULE Spec2Model ----
(***************************************************************************)
(* A model of the fax decoder (src/src/decoder.rs): the run decoder        *)
(* with_markup/colored, the pixel materializer pels, the Group 3 driver    *)
(* decode_g3 and the Group 4 driver decode_g4.                             *)
(*                                                                         *)
(* decoder.rs imports BitReader, ByteReader, Transitions and the code      *)
(* tables (maps::{mode, white, black, EOL, EDFB_HALF}) from the rest of    *)
(* the crate.  Those are modelled from the specification text (sections    *)
(* 3, 4.1, 4.2 and 6) and are marked as such where they are defined.       *)
(*                                                                         *)
(* The input is a bit stream.  The reader pulls it from its iterator on    *)
(* demand, so the model reveals the stream in the same way: `input` holds  *)
(* the bits pulled but not yet consumed, `closed` says the iterator is     *)
(* exhausted, and a decoder step is taken once the bits it looks at are    *)
(* determined (they are in `input`, or the stream is closed).              *)
(***************************************************************************)
EXTENDS Integers, Sequences, FiniteSets, TLC

VARIABLES
    input,          \* reader: bits pulled from the iterator and not yet consumed
    closed,         \* reader: the iterator returned None
    fed,            \* number of chunks the iterator has delivered since Init (bounded)
    consumed,       \* reader: number of bits consumed since Init
    width,          \* decode_g4 argument
    height,         \* decode_g4 argument: None or Some(h)
    y,              \* decode_g4: index of the line being decoded
    reference,      \* decode_g4: reference line
    current,        \* decode_g4 / decode_g3: coding line
    pos,            \* decode_g4: transitions.pos, the cursor over reference
    a0,             \* decode_g4 / decode_g3
    color,          \* decode_g4 / decode_g3
    start_of_row,   \* decode_g4
    eols,           \* decode_g3: iterations done of the `for _ in 0 .. 6` loop
    pc,             \* position of the running function
    outer,          \* decode_g4: how loop 'outer was left ("in" while inside it)
    result,         \* "running", "Some", "None" (returned) or "panic" (unwound)
    emitted,        \* the lines passed to line_cb so far, in call order
    line,           \* pels argument
    pixels,         \* pels: the collected iterator output, None before the call
    run             \* with_markup: the returned Option<u16>, None before the call

vars == <<input, closed, fed, consumed, width, height, y, reference, current,
          pos, a0, color, start_of_row, eols, pc, outer, result, emitted, line, pixels,
          run>>

readerVars == <<input, closed, fed, consumed>>
g4Vars == <<y, reference, pos, start_of_row, outer>>
pelsVars == <<line, pixels>>
idleVars == <<pelsVars, run>>

----------------------------------------------------------------------------
(* Bounds of the model *)

\* chunks (code words or stray bits) the input iterator delivers at most
MaxChunks == 3
\* largest image width tried
MaxWidth == 4
\* largest specified height tried
MaxHeight == 2
\* chunks the input iterator delivers at most to decode_g3
MaxChunksG3 == 9
\* longest line handed to pels
MaxLineLen == 3
\* largest position in a line handed to pels
MaxPos == 5
\* how far the sampled 16-bit values reach from 0, from 2^15 and from 2^16 - 1
MaxNear == 2
\* longest chain of makeup codes handed to with_markup
MaxChain == 26

----------------------------------------------------------------------------
(* Option, Color, 16-bit arithmetic *)

None == <<>>
Some(x) == <<x>>
IsSome(o) == o # None
Unwrap(o) == o[1]

White == "White"
Black == "Black"
Not(c) == IF c = White THEN Black ELSE White

\* number of values of a u16
U16 == 65536
\* number of non-negative values of an i16
I16 == 32768
U16Max == U16 - 1

\* u16 + u16: the wrapped value, and whether the sum overflowed (a debug build
\* panics on overflow, a release build wraps)
WrapU16(n) == ((n % U16) + U16) % U16
AddU16(a, b) == [val |-> WrapU16(a + b), ovf |-> a + b >= U16]

\* u16::saturating_sub
SaturatingSub(a, b) == IF a >= b THEN a - b ELSE 0

\* `x as i16` for a u16 x
AsI16(x) == IF x >= I16 THEN x - U16 ELSE x

----------------------------------------------------------------------------
(* BitReader (modelled from spec section 4.1): bits are 0/1, first bit first *)

IsPrefix(p, s) == Len(p) <= Len(s) /\ SubSeq(s, 1, Len(p)) = p
Drop(s, n) == SubSeq(s, n + 1, Len(s))

\* A reader operation that looks at bits answers "ok", "fail", or "more" when
\* the bits pulled so far do not decide it and the iterator is not exhausted.

\* peek(n): the next n bits, failing if fewer than n remain
Peek(bits, eof, n) ==
    IF Len(bits) >= n THEN [st |-> "ok", val |-> SubSeq(bits, 1, n)]
    ELSE IF eof THEN [st |-> "fail", val |-> <<>>]
    ELSE [st |-> "more", val |-> <<>>]

\* expect(pattern): matches and consumes the pattern, fails (consuming nothing)
\* if the upcoming bits do not match
Expect(bits, eof, pat) ==
    LET p == Peek(bits, eof, Len(pat)) IN
    IF p.st = "ok" /\ p.val = pat THEN [st |-> "ok", rest |-> Drop(bits, Len(pat))]
    ELSE IF p.st = "more" /\ IsPrefix(bits, pat) THEN [st |-> "more", rest |-> bits]
    ELSE [st |-> "fail", rest |-> bits]

----------------------------------------------------------------------------
(* Code tables (modelled from spec sections 4.2 and 6) *)

\* EOL = EDFB_HALF: the 12-bit pattern 0000 0000 0001
EOL == <<0,0,0,0,0,0,0,0,0,0,0,1>>
EDFB_HALF == EOL

Pass == [kind |-> "Pass", delta |-> 0]
Vertical(d) == [kind |-> "Vertical", delta |-> d]
Horizontal == [kind |-> "Horizontal", delta |-> 0]
Extension == [kind |-> "Extension", delta |-> 0]
EOF == [kind |-> "EOF", delta |-> 0]

\* the T.6 mode codes; the EOF code is the first EOL of the EOFB marker
ModeTable ==
    { [code |-> <<1>>,             val |-> Vertical(0)],
      [code |-> <<0,1,1>>,         val |-> Vertical(1)],
      [code |-> <<0,1,0>>,         val |-> Vertical(-1)],
      [code |-> <<0,0,0,0,1,1>>,   val |-> Vertical(2)],
      [code |-> <<0,0,0,0,1,0>>,   val |-> Vertical(-2)],
      [code |-> <<0,0,0,0,0,1,1>>, val |-> Vertical(3)],
      [code |-> <<0,0,0,0,0,1,0>>, val |-> Vertical(-3)],
      [code |-> <<0,0,0,1>>,       val |-> Pass],
      [code |-> <<0,0,1>>,         val |-> Horizontal],
      [code |-> <<0,0,0,0,0,0,1>>, val |-> Extension],
      [code |-> EOL,               val |-> EOF] }

\* T.4 white run codes: the terminators 0, 2, 3 and the makeup 64
WhiteTable ==
    { [code |-> <<0,0,1,1,0,1,0,1>>, val |-> 0],
      [code |-> <<0,1,1,1>>,         val |-> 2],
      [code |-> <<1,0,0,0>>,         val |-> 3],
      [code |-> <<1,1,0,1,1>>,       val |-> 64] }

\* T.4 black run codes: the terminators 0, 1, 3 and the makeup 64
BlackTable ==
    { [code |-> <<0,0,0,0,1,1,0,1,1,1>>, val |-> 0],
      [code |-> <<0,1,0>>,               val |-> 1],
      [code |-> <<1,0>>,                 val |-> 3],
      [code |-> <<0,0,0,0,0,0,1,1,1,1>>, val |-> 64] }

\* <table>::decode: consume the code word that starts the bit stream and
\* return its symbol; fail if no entry matches the available bits
Decode(table, bits, eof) ==
    LET hits == {e \in table : IsPrefix(e.code, bits)} IN
    IF hits # {}
    THEN LET e == CHOOSE h \in hits : \A g \in hits : Len(h.code) <= Len(g.code)
         IN [st |-> "ok", val |-> e.val, rest |-> Drop(bits, Len(e.code))]
    ELSE IF ~eof /\ \E e \in table : IsPrefix(bits, e.code)
    THEN [st |-> "more", val |-> 0, rest |-> bits]
    ELSE [st |-> "fail", val |-> 0, rest |-> bits]

----------------------------------------------------------------------------
(* Run decoder: decoder.rs, with_markup and colored *)

\* with_markup: sum the table's values up to and including the first one
\* below 64; None if the table fails first (the makeups stay consumed)
RECURSIVE with_markup(_, _, _, _, _)
with_markup(table, bits, eof, sum, ovf) ==
    LET r == Decode(table, bits, eof) IN
    IF r.st # "ok"
    THEN [st |-> r.st, val |-> 0, ovf |-> ovf, rest |-> r.rest]
    ELSE LET s == AddU16(sum, r.val) IN
         IF r.val < 64
         THEN [st |-> "ok", val |-> s.val, ovf |-> ovf \/ s.ovf, rest |-> r.rest]
         ELSE \* the next iteration, its arguments bound as values
              CHOOSE out \in {with_markup(table, rest, eof, acc, o) :
                                 rest \in {r.rest}, acc \in {s.val}, o \in {ovf \/ s.ovf}} : TRUE

colored(c, bits, eof) ==
    IF c = Black THEN with_markup(BlackTable, bits, eof, 0, FALSE)
    ELSE with_markup(WhiteTable, bits, eof, 0, FALSE)

----------------------------------------------------------------------------
(* Pixel materializer: decoder.rs, pels *)

\* std::iter::repeat(c).take(n)
RepeatTake(c, n) == [i \in 1 .. n |-> c]

\* iter.take(n)
Take(s, n) == SubSeq(s, 1, IF Len(s) < n THEN Len(s) ELSE n)

\* the flat_map closure applied to line[i ..], with its captured `color` and `last`
RECURSIVE FlatMapRuns(_, _, _, _)
FlatMapRuns(ln, i, c, last) ==
    IF i > Len(ln) THEN <<>>
    ELSE LET p == ln[i]
             n == SaturatingSub(p, last)
         IN RepeatTake(c, n) \o FlatMapRuns(ln, i + 1, Not(c), p)

pad_color_White(ln) == White
pad_color(ln) == IF Len(ln) % 2 = 1 THEN Not(White) ELSE White

\* pels(line, width) collected: the chain with repeat(pad_color) never runs
\* dry, so take(width) needs at most w items of it
pels_NoChain(ln, w) == Take(FlatMapRuns(ln, 1, White, 0), w)
pels(ln, w) ==
    Take(FlatMapRuns(ln, 1, White, 0) \o RepeatTake(pad_color(ln), w), w)

----------------------------------------------------------------------------
(* Transitions, the cursor over the reference line (modelled from spec
   section 3).  pos counts the reference entries the cursor has passed, so
   edges[pos] is the entry it stands on and edges[pos + 1] the next one. *)

\* transition number i of a line is a transition into Black iff i is odd
Into(i) == IF i % 2 = 1 THEN Black ELSE White

\* next_color(a0, color_to_find, at_start_of_row): advance pos to the first
\* reference position strictly greater than a0 (than -1 at the start of the
\* row) that is a transition into color_to_find
next_color(edges, p, start, c, sor) ==
    LET lo == IF sor THEN -1 ELSE start
        cand == {i \in (p + 1) .. Len(edges) : edges[i] > lo /\ Into(i) = c}
    IN IF cand = {} THEN [val |-> None, pos |-> IF p > Len(edges) THEN p ELSE Len(edges)]
       ELSE LET i == CHOOSE j \in cand : \A k \in cand : j <= k
            IN [val |-> Some(edges[i]), pos |-> i]

\* next(): advance pos by one and return the value at the new position
next(edges, p) ==
    IF p < Len(edges) THEN [val |-> Some(edges[p + 1]), pos |-> p + 1]
    ELSE [val |-> None, pos |-> p]

\* seek_back(a0): rewind pos to just past the largest reference position <= a0
seek_back(edges, p, start) ==
    LET q == IF p > Len(edges) THEN Len(edges) ELSE p
        keep == {j \in 0 .. q : j = 0 \/ edges[j] <= start}
    IN CHOOSE j \in keep : \A k \in keep : k <= j

----------------------------------------------------------------------------
(* The input iterator *)

\* what the iterator can deliver in one piece: every code word, and the
\* single bits 0 and 1 (1 is a mode code), from which any bit stream can be
\* put together
Chunks ==
    {e.code : e \in ModeTable} \cup {e.code : e \in WhiteTable}
        \cup {e.code : e \in BlackTable} \cup {<<0>>}

\* the pieces delivered to decode_g3: EOL, a white and a black terminator, the
\* white makeup, and a stray bit
ChunksG3 == {EOL, <<0,1,1,1>>, <<1,0>>, <<1,1,0,1,1>>, <<0>>}

\* the reader consumes the bits before `rest`
Consume(rest) ==
    /\ input' = rest
    /\ consumed' = consumed + (Len(input) - Len(rest))
    /\ UNCHANGED <<closed, fed>>

\* an arithmetic overflow panics in a build with overflow checks and wraps in
\* one without: both outcomes are possible where an overflow happened
Panics(ovf) == IF ovf THEN {TRUE, FALSE} ELSE {FALSE}

Return(r) == pc' = "done" /\ result' = r

----------------------------------------------------------------------------
(* Group 4 driver: decoder.rs, decode_g4 *)

\* let limit = height.unwrap_or(u16::MAX)
limit == IF IsSome(height) THEN Unwrap(height) ELSE U16Max

\* mode::decode(&mut reader) at the head of the per-line loop
ModeNow == Decode(ModeTable, input, closed)

\* the two runs of a Horizontal step, decoded after the mode code
HorizontalRuns ==
    LET r1 == colored(color, ModeNow.rest, closed)
        r2 == colored(Not(color), r1.rest, closed)
    IN IF r1.st # "ok" THEN [st |-> r1.st, a0a1 |-> 0, a1a2 |-> 0, ovf |-> r1.ovf, rest |-> r1.rest]
       ELSE [st |-> r2.st, a0a1 |-> r1.val, a1a2 |-> r2.val,
             ovf |-> r1.ovf \/ r2.ovf, rest |-> r2.rest]

\* reader.peek(3) of an Extension step, after the mode code
ExtensionPeek == Peek(ModeNow.rest, closed, 3)

\* reader.expect(EDFB_HALF) after the line loop
TailExpect == Expect(input, closed, EDFB_HALF)

\* (b1 as i16 + delta as i16) as u16, and whether the i16 addition overflowed
VerticalA1(b1, delta) ==
    LET s == AsI16(b1) + delta
    IN [val |-> WrapU16(s), ovf |-> s >= I16 \/ s < -I16]

\* the test of `for y in 0 .. limit`
InRange_Inclusive(n) == n <= limit
InRange(n) == n < limit

\* `a1 >= width`, `a2 >= width`, `a0 >= width`: the line is complete
AtLineEnd_Greater(p) == p > width
AtLineEnd(p) == p >= width

\* height.is_none(): the EOFB marker is expected after the last line
NeedsEofb_Always == TRUE
NeedsEofb == ~IsSome(height)

\* what the next line starts with: Transitions::new(&reference), a0 = 0,
\* color = White, start_of_row = true; the `for` loop ends at y = limit
NextLine ==
    /\ y' = y + 1
    /\ pos' = 0
    /\ a0' = 0
    /\ color' = White
    /\ start_of_row' = TRUE
    /\ pc' = IF InRange(y + 1) THEN "line" ELSE "tail"
    /\ outer' = IF InRange(y + 1) THEN "in" ELSE "end"

\* the end of a line without the swap: emitted, and reference left as it was
EndLine_NoSwap(cur) ==
    /\ emitted' = Append(emitted, cur)
    /\ reference' = reference
    /\ current' = <<>>
    /\ NextLine
    /\ UNCHANGED result

\* the end of a line: line_cb(&current); swap(reference, current); current.clear()
EndLine(cur) ==
    /\ emitted' = Append(emitted, cur)
    /\ reference' = cur
    /\ current' = <<>>
    /\ NextLine
    /\ UNCHANGED result

\* the end of the loop body with the color of the step dropped
AfterMode_KeepColor(cur, na0, ncolor, npos) ==
    IF AtLineEnd(na0) THEN EndLine(cur)
    ELSE /\ current' = cur
         /\ a0' = na0
         /\ color' = color
         /\ pos' = npos
         /\ start_of_row' = FALSE
         /\ UNCHANGED <<y, reference, emitted, pc, outer, result>>

\* the end of the loop body after a mode that did not break:
\* start_of_row = false; if a0 >= width { break }
AfterMode(cur, na0, ncolor, npos) ==
    IF AtLineEnd(na0) THEN EndLine(cur)
    ELSE /\ current' = cur
         /\ a0' = na0
         /\ color' = ncolor
         /\ pos' = npos
         /\ start_of_row' = FALSE
         /\ UNCHANGED <<y, reference, emitted, pc, outer, result>>

\* a `?` or a panic inside the line loop: the function is left at once
Leave(r) ==
    /\ Return(r)
    /\ outer' = "return"
    /\ UNCHANGED <<y, reference, current, pos, a0, color, start_of_row, emitted>>

\* `continue` in the place of break 'outer: the line loop is not left
BreakOuter_Continue(why) ==
    /\ pc' = "line"
    /\ outer' = why
    /\ UNCHANGED <<y, reference, current, pos, a0, color, start_of_row, emitted, result>>

\* break 'outer
BreakOuter_Callback(why) ==
    /\ pc' = "tail"
    /\ outer' = why
    /\ emitted' = Append(emitted, current)
    /\ UNCHANGED <<y, reference, current, pos, a0, color, start_of_row, result>>
BreakOuter(why) ==
    /\ pc' = "tail"
    /\ outer' = why
    /\ UNCHANGED <<y, reference, current, pos, a0, color, start_of_row, emitted, result>>

\* mode::decode returned None: break 'outer
G4ModeNone ==
    /\ pc = "line"
    /\ ModeNow.st = "fail"
    /\ BreakOuter("mode_none")
    /\ UNCHANGED <<readerVars, width, height, eols, idleVars>>

\* b1 of a Pass step: at the start of a row with color White the cursor is
\* advanced by one (transitions.pos += 1) and nothing is looked up; else
\* transitions.next_color(a0, !color, false)
PassB1_Search == next_color(reference, pos, a0, Not(color), FALSE)
PassB1 ==
    IF start_of_row /\ color = White
    THEN [val |-> Some(0), pos |-> pos + 1]
    ELSE next_color(reference, pos, a0, Not(color), FALSE)

G4Pass ==
    /\ pc = "line"
    /\ ModeNow.st = "ok" /\ ModeNow.val.kind = "Pass"
    /\ Consume(ModeNow.rest)
    /\ LET b1 == PassB1
           b2 == next(reference, b1.pos)
       IN IF b1.val = None THEN Leave("None")
          ELSE AfterMode(current, IF IsSome(b2.val) THEN Unwrap(b2.val) ELSE a0,
                         color, b2.pos)
    /\ UNCHANGED <<width, height, eols, idleVars>>

G4Vertical ==
    /\ pc = "line"
    /\ ModeNow.st = "ok" /\ ModeNow.val.kind = "Vertical"
    /\ Consume(ModeNow.rest)
    /\ LET delta == ModeNow.val.delta
           f == next_color(reference, pos, a0, Not(color), start_of_row)
           b1 == IF IsSome(f.val) THEN Unwrap(f.val) ELSE width
           a1 == VerticalA1(b1, delta)
       IN \E panic \in Panics(a1.ovf) :
            IF panic THEN Leave("panic")
            ELSE IF AtLineEnd(a1.val) THEN EndLine(current)
            ELSE AfterMode(Append(current, a1.val), a1.val, Not(color),
                           IF delta < 0 THEN seek_back(reference, f.pos, a1.val)
                           ELSE f.pos)
    /\ UNCHANGED <<width, height, eols, idleVars>>

\* current.push(a1) of a Horizontal step, done before a2 is compared with width
PushA1_Skip(cur, a1) == cur
PushA1(cur, a1) == Append(cur, a1)

G4Horizontal ==
    /\ pc = "line"
    /\ ModeNow.st = "ok" /\ ModeNow.val.kind = "Horizontal"
    /\ HorizontalRuns.st # "more"
    /\ Consume(HorizontalRuns.rest)
    /\ LET h == HorizontalRuns
           a1 == AddU16(a0, h.a0a1)
           a2 == AddU16(a1.val, h.a1a2)
       IN \E panic \in Panics(h.ovf \/ (h.st = "ok" /\ (a1.ovf \/ a2.ovf))) :
            IF panic THEN Leave("panic")
            ELSE IF h.st = "fail" THEN Leave("None")
            ELSE IF AtLineEnd(a2.val) THEN EndLine(PushA1(current, a1.val))
            ELSE AfterMode(Append(PushA1(current, a1.val), a2.val), a2.val,
                           color, pos)
    /\ UNCHANGED <<width, height, eols, idleVars>>

G4Extension ==
    /\ pc = "line"
    /\ ModeNow.st = "ok" /\ ModeNow.val.kind = "Extension"
    /\ ExtensionPeek.st # "more"
    /\ IF ExtensionPeek.st = "fail"
       THEN Consume(ModeNow.rest) /\ Leave("None")
       ELSE Consume(Drop(ModeNow.rest, 3)) /\ BreakOuter("extension")
    /\ UNCHANGED <<width, height, eols, idleVars>>

G4EOF ==
    /\ pc = "line"
    /\ ModeNow.st = "ok" /\ ModeNow.val.kind = "EOF"
    /\ Consume(ModeNow.rest)
    /\ BreakOuter("eof")
    /\ UNCHANGED <<width, height, eols, idleVars>>

\* after the line loop: if height.is_none() { reader.expect(EDFB_HALF).ok()?; } Some(())
G4Finish ==
    /\ pc = "tail"
    /\ IF NeedsEofb
       THEN /\ TailExpect.st # "more"
            /\ Consume(TailExpect.rest)
            /\ Return(IF TailExpect.st = "ok" THEN "Some" ELSE "None")
       ELSE Return("Some") /\ UNCHANGED readerVars
    /\ UNCHANGED <<width, height, g4Vars, current, a0, color, eols, emitted, idleVars>>

\* the step at the current position needs bits the reader has not pulled yet
G4Waiting ==
    \/ /\ pc = "line"
       /\ \/ ModeNow.st = "more"
          \/ ModeNow.st = "ok" /\ ModeNow.val.kind = "Horizontal" /\ HorizontalRuns.st = "more"
          \/ ModeNow.st = "ok" /\ ModeNow.val.kind = "Extension" /\ ExtensionPeek.st = "more"
    \/ pc = "tail" /\ NeedsEofb /\ TailExpect.st = "more"

\* the reader pulls the next piece of the stream
G4Feed ==
    /\ G4Waiting
    /\ ~closed
    /\ fed < MaxChunks
    /\ \E c \in Chunks : input' = input \o c
    /\ fed' = fed + 1
    /\ UNCHANGED <<closed, consumed, width, height, g4Vars, current, a0, color,
                   eols, pc, result, emitted, idleVars>>

\* the reader pulls and the iterator is exhausted
G4Close ==
    /\ G4Waiting
    /\ ~closed
    /\ closed' = TRUE
    /\ UNCHANGED <<input, fed, consumed, width, height, g4Vars, current, a0, color,
                   eols, pc, result, emitted, idleVars>>

Widths == (MaxWidth - 1) .. MaxWidth
Heights == {None, Some(MaxHeight)}

\* decode_g4(input, width, height, line_cb) up to the first loop test
Init ==
    /\ input = <<>> /\ closed = FALSE /\ fed = 0 /\ consumed = 0
    /\ width \in Widths
    /\ height \in Heights
    /\ y = 0 /\ reference = <<>> /\ current = <<>>
    /\ pos = 0 /\ a0 = 0 /\ color = White /\ start_of_row = TRUE
    /\ eols = 0
    /\ pc = IF InRange(0) THEN "line" ELSE "tail"
    /\ outer = IF InRange(0) THEN "in" ELSE "end"
    /\ result = "running"
    /\ emitted = <<>>
    /\ line = <<>> /\ pixels = None /\ run = None

Next ==
    \/ G4Feed \/ G4Close
    \/ G4ModeNone \/ G4Pass \/ G4Vertical \/ G4Horizontal \/ G4Extension \/ G4EOF
    \/ G4Finish

Spec == Init /\ [][Next]_vars

----------------------------------------------------------------------------
(* Group 3 driver: decoder.rs, decode_g3 *)

\* colored(color, &mut reader) at the head of the `while let`
RunNow == colored(color, input, closed)

\* reader.expect(EOL) after the runs of a line
LineExpect == Expect(RunNow.rest, closed, EOL)

\* reader.peek(EOL.len) == Some(EOL.data): "ok" yes, "fail" no
EolPeek == Expect(input, closed, EOL)

\* `for _ in 0 .. 6` has run n times: the loop is over, and `break` follows
LoopDone_Five(n) == n = 5
LoopDone(n) == n = 6

\* reader.expect(EOL).unwrap() before the first line
G3Start ==
    /\ pc = "g3_start"
    /\ EolPeek.st # "more"
    /\ Consume(EolPeek.rest)
    /\ IF EolPeek.st = "ok" THEN pc' = "g3_run" /\ UNCHANGED result
       ELSE Return("panic")
    /\ UNCHANGED <<width, height, g4Vars, current, a0, color, eols, emitted, idleVars>>

\* current.push(a0) of decode_g3: the end of every run is stored; decode_g3
\* has no width to compare it with
PushRun_Skip(cur, p) == cur
PushRun(cur, p) == Append(cur, p)

\* one iteration of `while let Some(p) = colored(color, &mut reader)`
G3Run ==
    /\ pc = "g3_run"
    /\ RunNow.st = "ok"
    /\ Consume(RunNow.rest)
    /\ LET s == AddU16(a0, RunNow.val)
       IN \E panic \in Panics(RunNow.ovf \/ s.ovf) :
            IF panic THEN Return("panic") /\ UNCHANGED <<current, a0, color>>
            ELSE /\ a0' = s.val
                 /\ current' = PushRun(current, s.val)
                 /\ color' = Not(color)
                 /\ UNCHANGED <<pc, result>>
    /\ UNCHANGED <<width, height, g4Vars, eols, emitted, idleVars>>

\* colored returned None: reader.expect(EOL).unwrap(); line_cb(&current);
\* current.clear(); then the `for _ in 0 .. 6` loop starts
G3EndLine ==
    /\ pc = "g3_run"
    /\ RunNow.st = "fail"
    /\ LineExpect.st # "more"
    /\ Consume(LineExpect.rest)
    /\ \E panic \in Panics(RunNow.ovf) :
         IF panic \/ LineExpect.st = "fail"
         THEN Return("panic") /\ UNCHANGED <<current, eols, emitted>>
         ELSE /\ emitted' = Append(emitted, current)
              /\ current' = <<>>
              /\ eols' = 0
              /\ pc' = "g3_eols"
              /\ UNCHANGED result
    /\ UNCHANGED <<width, height, g4Vars, a0, color, idleVars>>

\* one iteration of the `for _ in 0 .. 6` loop: an EOL is consumed, and the
\* sixth one breaks out of 'a; anything else continues 'a with a new line
G3Eol ==
    /\ pc = "g3_eols"
    /\ EolPeek.st # "more"
    /\ IF EolPeek.st = "ok"
       THEN /\ Consume(EolPeek.rest)
            /\ eols' = eols + 1
            /\ IF LoopDone(eols + 1) THEN Return("Some") ELSE UNCHANGED <<pc, result>>
            /\ UNCHANGED <<a0, color>>
       ELSE /\ pc' = "g3_run"
            /\ a0' = 0
            /\ color' = White
            /\ UNCHANGED <<readerVars, eols, result>>
    /\ UNCHANGED <<width, height, g4Vars, current, emitted, idleVars>>

G3Waiting ==
    \/ pc \in {"g3_start", "g3_eols"} /\ EolPeek.st = "more"
    \/ pc = "g3_run" /\ (RunNow.st = "more" \/ (RunNow.st = "fail" /\ LineExpect.st = "more"))

G3Feed ==
    /\ G3Waiting
    /\ ~closed
    /\ fed < MaxChunksG3
    /\ \E c \in ChunksG3 : input' = input \o c
    /\ fed' = fed + 1
    /\ UNCHANGED <<closed, consumed, width, height, g4Vars, current, a0, color,
                   eols, pc, result, emitted, idleVars>>

G3Close ==
    /\ G3Waiting
    /\ ~closed
    /\ closed' = TRUE
    /\ UNCHANGED <<input, fed, consumed, width, height, g4Vars, current, a0, color,
                   eols, pc, result, emitted, idleVars>>

\* decode_g3(input, line_cb) up to reader.expect(EOL); a0 and color are those
\* of the first pass of loop 'a
InitG3 ==
    /\ input = <<>> /\ closed = FALSE /\ fed = 0 /\ consumed = 0
    /\ width = 0 /\ height = None
    /\ y = 0 /\ reference = <<>> /\ current = <<>>
    /\ pos = 0 /\ a0 = 0 /\ color = White /\ start_of_row = TRUE
    /\ eols = 0
    /\ pc = "g3_start" /\ outer = "in"
    /\ result = "running"
    /\ emitted = <<>>
    /\ line = <<>> /\ pixels = None /\ run = None

NextG3 == G3Feed \/ G3Close \/ G3Start \/ G3Run \/ G3EndLine \/ G3Eol

SpecG3 == InitG3 /\ [][NextG3]_vars

----------------------------------------------------------------------------
(* Both drivers on finite inputs: a call of decode_g4 or of decode_g3, whose
   input iterator ends after finitely many chunks and whose code keeps
   running until it returns or unwinds *)

InitAll == Init \/ InitG3

NextAll == Next \/ NextG3

SpecAll == InitAll /\ [][NextAll]_vars /\ WF_vars(NextAll)

----------------------------------------------------------------------------
(* One mode step of decode_g4 applied to bounded inputs.  width, the
   reference line and a0 are u16: they are drawn from the values near 0,
   near the i16 limit and near u16::MAX, and the step is decoded from a
   complete code word.  The reader's counters are counted from this state. *)

U16Samples ==
    (0 .. MaxNear) \cup (I16 - MaxNear .. I16 + MaxNear) \cup (U16Max - MaxNear .. U16Max)

StepWidths == U16Samples \ {0}

\* reference lines: the empty first reference; [b] (a Horizontal step whose
\* second run reaches the margin); [b, b + 3] (a Horizontal step and an end
\* of line); [w - 1, w - 3] (Vertical(-1), Vertical(-3) on an empty reference)
StepRefs(w) ==
    {<<>>} \cup {<<b>> : b \in {c \in U16Samples : c <= w}}
           \cup {<<b, b + 3>> : b \in {c \in U16Samples : c + 3 < w}}
           \cup (IF w >= 3 THEN {<<w - 1, w - 3>>} ELSE {})

\* the line so far: nothing (start of row), or the two positions [0, b] of a
\* Horizontal step with a white run of 0 and a black run of b < w
StepStarts(w) ==
    {[current |-> <<>>, a0 |-> 0, start_of_row |-> TRUE]}
    \cup {[current |-> <<0, b>>, a0 |-> b, start_of_row |-> FALSE] :
            b \in {c \in U16Samples : c < w}}

\* the code words of one step: a Vertical or Pass code, or the Horizontal
\* code with a white and a black terminating code
StepInputs ==
    {e.code : e \in {m \in ModeTable : m.val.kind \in {"Vertical", "Pass"}}}
    \cup {e.code \o w.code \o b.code :
            e \in {m \in ModeTable : m.val.kind = "Horizontal"},
            w \in {t \in WhiteTable : t.val < 64},
            b \in {t \in BlackTable : t.val < 64}}

InitStep ==
    /\ closed = TRUE /\ fed = 1 /\ consumed = 0
    /\ input \in StepInputs
    /\ width \in StepWidths
    /\ height = None
    /\ reference \in StepRefs(width)
    /\ y = IF reference = <<>> THEN 0 ELSE 1
    /\ emitted = IF reference = <<>> THEN <<>> ELSE <<reference>>
    /\ \E s \in StepStarts(width) :
         current = s.current /\ a0 = s.a0 /\ start_of_row = s.start_of_row
    /\ pos = 0 /\ color = White
    /\ eols = 0
    /\ pc = "line" /\ outer = "in"
    /\ result = "running"
    /\ line = <<>> /\ pixels = None /\ run = None

NextStep == G4Pass \/ G4Vertical \/ G4Horizontal

SpecStep == InitStep /\ [][NextStep]_vars

----------------------------------------------------------------------------
(* with_markup applied to bounded inputs: chains of makeup codes, ended by a
   terminating code or by the end of the input *)

\* the white table with the T.4 extended makeup code 2560 (the tables hold
\* the makeup codes through 2560)
LongTable ==
    WhiteTable \cup {[code |-> <<0,0,0,0,0,0,0,1,1,1,1,1>>, val |-> 2560]}

CodeOf(table, v) == (CHOOSE e \in table : e.val = v).code

\* n copies of the sequence q
Repeat(q, n) == [i \in 1 .. n * Len(q) |-> q[((i - 1) % Len(q)) + 1]]

\* n makeups 2560, k makeups 64, then a terminating code or nothing
RunInputs ==
    {Repeat(CodeOf(LongTable, 2560), n) \o Repeat(CodeOf(LongTable, 64), k) \o t :
        n \in 0 .. MaxChain, k \in 0 .. 1,
        t \in {<<>>} \cup {e.code : e \in {w \in LongTable : w.val < 64}}}

\* with_markup(decoder, reader) on the whole input
RunCall ==
    /\ pc = "run"
    /\ LET r == with_markup(LongTable, input, closed, 0, FALSE)
       IN /\ Consume(r.rest)
          /\ \E panic \in Panics(r.ovf) :
               IF panic THEN Return("panic") /\ UNCHANGED run
               ELSE /\ run' = IF r.st = "ok" THEN Some(r.val) ELSE None
                    /\ pc' = "done"
                    /\ UNCHANGED result
    /\ UNCHANGED <<width, height, g4Vars, current, a0, color, eols, emitted, pelsVars>>

InitRun ==
    /\ input \in RunInputs
    /\ closed = TRUE /\ fed = 1 /\ consumed = 0
    /\ width = 0 /\ height = None
    /\ y = 0 /\ reference = <<>> /\ current = <<>>
    /\ pos = 0 /\ a0 = 0 /\ color = White /\ start_of_row = TRUE
    /\ eols = 0
    /\ pc = "run" /\ outer = "in"
    /\ result = "running"
    /\ emitted = <<>>
    /\ line = <<>> /\ pixels = None /\ run = None

NextRun == RunCall

SpecRun == InitRun /\ [][NextRun]_vars

----------------------------------------------------------------------------
(* pels applied to bounded inputs *)

RECURSIVE SeqsUpTo(_, _)
SeqsUpTo(S, n) ==
    IF n = 0 THEN {<<>>}
    ELSE LET shorter == SeqsUpTo(S, n - 1)
         IN shorter \cup {Append(q, x) : q \in {r \in shorter : Len(r) = n - 1}, x \in S}

\* pels(&line, width).collect()
PelsCall ==
    /\ pc = "pels"
    /\ pixels' = Some(pels(line, width))
    /\ pc' = "done"
    /\ UNCHANGED <<readerVars, width, height, g4Vars, current, a0, color, eols,
                   result, emitted, line, run>>

InitPels ==
    /\ input = <<>> /\ closed = FALSE /\ fed = 0 /\ consumed = 0
    /\ width \in 0 .. MaxWidth
    /\ height = None
    /\ y = 0 /\ reference = <<>> /\ current = <<>>
    /\ pos = 0 /\ a0 = 0 /\ color = White /\ start_of_row = TRUE
    /\ eols = 0
    /\ pc = "pels" /\ outer = "in"
    /\ result = "running"
    /\ emitted = <<>>
    /\ line \in SeqsUpTo(0 .. MaxPos, MaxLineLen)
    /\ pixels = None /\ run = None

NextPels == PelsCall

SpecPels == InitPels /\ [][NextPels]_vars

----------------------------------------------------------------------------
(* Properties of decode_g4, checked under Spec *)

Last(q) == q[Len(q)]
StrictlyIncreasing(q) == \A i \in 1 .. Len(q) - 1 : q[i] < q[i + 1]

\* a step of the line loop that decoded a mode
ModeStep == pc = "line" /\ ModeNow.st = "ok" /\ consumed' # consumed
ModeKind == ModeNow.val.kind

\* the coding line as a step of the line loop leaves it: the line handed to
\* the callback if the step completed the line, else current
LineAfter == IF Len(emitted') > Len(emitted) THEN Last(emitted') ELSE current'

\* the positions a step of the line loop pushed
Pushed == SubSeq(LineAfter, Len(current) + 1, Len(LineAfter))

\* C1 as claimed: every line passed to the callback is strictly increasing and
\* all its positions p satisfy 0 < p < width.
C1_Original ==
    \A i \in 1 .. Len(emitted) :
        /\ StrictlyIncreasing(emitted[i])
        /\ \A j \in 1 .. Len(emitted[i]) : 0 < emitted[i][j] /\ emitted[i][j] < width

\* C1 as amended: a line passed to the callback is built only by the pushes of
\* Vertical and Horizontal steps; every position is a u16 (0 included); a
\* position pushed by a Vertical step is < width, and so is the second position
\* (a2) pushed by a Horizontal step.  Neither the order of the positions nor an
\* upper bound on the first position (a1) of a Horizontal step is guaranteed.
C1_PushedPositions ==
    [][ pc = "line" =>
          /\ IsPrefix(current, LineAfter)
          /\ \A i \in 1 .. Len(Pushed) : Pushed[i] \in 0 .. U16Max
          /\ Pushed # <<>> => ModeStep /\ ModeKind \in {"Vertical", "Horizontal"}
          /\ (ModeStep /\ ModeKind = "Vertical") =>
                Len(Pushed) <= 1 /\ \A i \in 1 .. Len(Pushed) : Pushed[i] < width
          /\ (ModeStep /\ ModeKind = "Horizontal") =>
                Len(Pushed) <= 2 /\ (Len(Pushed) = 2 => Pushed[2] < width)
      ]_vars

\* a line with two positions that do not increase was passed to the callback
C1_Witness ==
    \E i \in 1 .. Len(emitted) :
        Len(emitted[i]) = 2 /\ emitted[i][1] >= emitted[i][2]

\* C2 as claimed: when the mode decoder fails inside a line, decode_g4
\* returns None, whether height is specified or not.
C2_ModeFailureIsFailure ==
    (outer = "mode_none" /\ pc = "done") => result = "None"

\* the terminal condition of the line loop holds in the step being taken:
\* Vertical with a1 >= width, Horizontal with a2 >= width, or a0 >= width
\* after the mode (only Pass can set a0 that far)
Terminal ==
    /\ ModeStep
    /\ CASE ModeKind = "Vertical" ->
              LET f == next_color(reference, pos, a0, Not(color), start_of_row)
                  b1 == IF IsSome(f.val) THEN Unwrap(f.val) ELSE width
              IN WrapU16(AsI16(b1) + ModeNow.val.delta) >= width
         [] ModeKind = "Horizontal" ->
              /\ HorizontalRuns.st = "ok"
              /\ WrapU16(a0 + HorizontalRuns.a0a1 + HorizontalRuns.a1a2) >= width
         [] ModeKind = "Pass" ->
              LET p1 == IF start_of_row /\ color = White THEN pos + 1
                        ELSE next_color(reference, pos, a0, Not(color), FALSE).pos
                  b2 == next(reference, p1)
              IN /\ outer' \in {"in", "end"}
                 /\ IsSome(b2.val) /\ Unwrap(b2.val) >= width
         [] OTHER -> FALSE

\* C3: the callback is invoked only in a step that reached a terminal
\* condition of the line, with the line as that step left it; a step that
\* leaves the function or breaks out of 'outer invokes no callback, and none
\* is invoked afterwards.
C3_NoPartialLine ==
    [][ /\ emitted' # emitted =>
             /\ Terminal
             /\ emitted' = Append(emitted, LineAfter)
             /\ outer' \in {"in", "end"} /\ result' = "running"
        /\ (outer' \notin {"in", "end"} \/ pc \in {"tail", "done"}) => emitted' = emitted
      ]_vars

\* a line was cut short by a failed mode decode, an EOF or an Extension after
\* transitions had been pushed
C3_Witness ==
    outer \in {"mode_none", "eof", "extension", "return"} /\ current # <<>>

C5_ExtensionIsSuccess ==
    (outer = "extension" /\ pc = "done") => result = "Some"

\* C6: the callback has been invoked exactly once for each completed line, in
\* order (y counts the completed lines, and a step that completes a line
\* appends exactly that line to the log), so every bit of line y is consumed
\* after the callbacks of the lines before it; with height = Some(h) there
\* are at most h callbacks.
C6_Inv ==
    /\ Len(emitted) = y
    /\ IsSome(height) => Len(emitted) <= Unwrap(height)

C6_Step ==
    /\ y' # y => y' = y + 1 /\ emitted' = Append(emitted, LineAfter)
    /\ consumed' # consumed /\ pc = "line" => Len(emitted) = y

C6_OncePerLine == []C6_Inv /\ [][C6_Step]_vars

\* with height = Some(h), h >= 2, all h lines were decoded
C6_Witness ==
    /\ IsSome(height) /\ Unwrap(height) >= 2
    /\ Len(emitted) = Unwrap(height) /\ pc = "done"

----------------------------------------------------------------------------
(* Properties of pels, checked under SpecPels *)

\* C7: for every sequence of positions and every width, pels yields exactly
\* width colors.
C7_PelsLength ==
    IsSome(pixels) => Len(Unwrap(pixels)) = width

\* pels was applied to an unsorted line with a position beyond width
C7_Witness ==
    /\ IsSome(pixels)
    /\ Len(line) >= 2 /\ line[1] > width /\ line[2] < line[1]

\* C8: for a strictly increasing line of positions in [0, width], the color at
\* column x is White iff the number of positions <= x is even.
C8_PelsColors ==
    (/\ IsSome(pixels)
     /\ StrictlyIncreasing(line)
     /\ \A i \in 1 .. Len(line) : line[i] <= width)
    => \A x \in 0 .. width - 1 :
         Unwrap(pixels)[x + 1] = White
           <=> Cardinality({i \in 1 .. Len(line) : line[i] <= x}) % 2 = 0

\* pels was applied to a strictly increasing line with an odd number of
\* positions, the last one left of the right edge (so the padding is Black)
C8_Witness ==
    /\ IsSome(pixels)
    /\ StrictlyIncreasing(line)
    /\ Len(line) = 3 /\ line[3] < width

----------------------------------------------------------------------------
(* Properties of decode_g3, checked under SpecG3 *)

\* a step of the `for _ in 0 .. 6` loop
EolStep == pc = "g3_eols" /\ (pc' # pc \/ eols' # eols)

\* C9: after a line is emitted, eols counts the EOLs consumed since; each
\* further EOL is consumed, the sixth one makes decode_g3 return Some, and
\* anything else than an EOL after k < 6 of them resumes with the next line,
\* consuming nothing more and returning nothing.
C9_Inv ==
    /\ result = "Some" <=> (pc = "done" /\ eols = 6)
    /\ pc = "g3_eols" => eols < 6 /\ Len(emitted) >= 1 /\ current = <<>>

C9_Step ==
    EolStep =>
        IF IsPrefix(EOL, input)
        THEN /\ eols' = eols + 1
             /\ input' = Drop(input, Len(EOL))
             /\ IF eols' = 6 THEN result' = "Some" /\ pc' = "done"
                ELSE result' = "running" /\ pc' = "g3_eols"
        ELSE /\ pc' = "g3_run" /\ result' = "running"
             /\ input' = input /\ eols' = eols
             /\ a0' = 0 /\ color' = White

C9_EndOfPage == []C9_Inv /\ [][C9_Step]_vars

\* a line with a run was emitted and six EOLs followed its EOL
C9_Witness ==
    result = "Some" /\ \E i \in 1 .. Len(emitted) : emitted[i] # <<>>

\* C10 as claimed: when an EOL is missing where it is required, decode_g3
\* ends by returning a failure to its caller: it never panics.
C10_MissingEolIsFailure ==
    pc = "done" => result \in {"Some", "None"}

\* the page of C11: the initial EOL, one white run (code 0111 or 1000, four
\* bits), the EOL of the line and six further EOLs, all consumed, and
\* decode_g3 has returned
OneRunPage ==
    /\ pc = "done" /\ result = "Some"
    /\ Len(emitted) = 1
    /\ consumed = 8 * Len(EOL) + 4

\* C11 as stated: on the page of one white run the callback is invoked once
\* and the line it receives is empty
C11_Original == OneRunPage => emitted = << <<>> >>

\* C11: on the page of one white run the callback is invoked once and the
\* line it receives holds one position, the end of the run (a0 still holds it)
C11_RunEndStored == OneRunPage => emitted = << <<a0>> >> /\ a0 > 0

C11_Witness == OneRunPage /\ emitted = << <<2>> >>

\* b1 of a Vertical step: transitions.next_color(a0, !color, start_of_row)
\* .unwrap_or(width)
VerticalB1 ==
    LET f == next_color(reference, pos, a0, Not(color), start_of_row)
    IN IF IsSome(f.val) THEN Unwrap(f.val) ELSE width

\* C12: a Vertical step with b1 in 0 .. width ends the line without pushing
\* exactly when b1 + delta, computed in the integers, is below 0 or at least
\* width; otherwise it pushes b1 + delta, flips color and sets a0 to it; the
\* i16 addition does not overflow
C12_VerticalExact ==
    [][ModeStep /\ ModeKind = "Vertical" /\ VerticalB1 <= width =>
        LET m == VerticalB1 + ModeNow.val.delta IN
        /\ result' # "panic"
        /\ IF m < 0 \/ m >= width
           THEN emitted' = Append(emitted, current)
           ELSE /\ current' = Append(current, m)
                /\ color' = Not(color)
                /\ a0' = m
                /\ emitted' = emitted]_vars

PassB2 ==
    LET i == IF start_of_row /\ color = White THEN pos + 2
             ELSE next_color(reference, pos, a0, Not(color), FALSE).pos + 1
    IN IF i <= Len(reference) THEN Some(reference[i]) ELSE None

\* b1 of a Pass step exists
PassHasB1 ==
    (start_of_row /\ color = White)
    \/ IsSome(next_color(reference, pos, a0, Not(color), FALSE).val)

\* C14: a Pass step whose b1 and b2 exist sets a0 to b2 and leaves current
\* and color as they are (the line ends, unchanged, if b2 >= width); at the
\* start of a row with color White b2 is the second reference entry beyond
\* the cursor, whatever the first one is
C14_Pass ==
    [][ModeStep /\ ModeKind = "Pass" /\ PassHasB1 /\ IsSome(PassB2) =>
        LET b2 == Unwrap(PassB2) IN
        /\ result' = "running"
        /\ IF b2 >= width THEN emitted' = Append(emitted, current)
           ELSE /\ a0' = b2
                /\ current' = current
                /\ color' = color
                /\ emitted' = emitted]_vars

\* reference [2, 5], a0 = 0, start of row: after Pass a0 = 5
C14_Witness ==
    /\ reference = <<2, 5>> /\ current = <<>> /\ color = White
    /\ a0 = 5 /\ ~start_of_row /\ consumed = 4

\* C15: a Pass step whose b1 or b2 lies past the end of the reference line
\* makes decode_g4 return None; the line is not continued
C15_PassFailure ==
    [][ModeStep /\ ModeKind = "Pass" /\ (~PassHasB1 \/ ~IsSome(PassB2)) =>
        pc' = "done" /\ result' = "None"]_vars

\* the reference line is the line last passed to the callback, or empty
\* before the first line; a line starts with current empty
C16_Inv ==
    /\ pc \in {"line", "tail", "done"} =>
         reference = (IF emitted = <<>> THEN <<>> ELSE Last(emitted))
    /\ pc = "line" /\ start_of_row => current = <<>>

\* reference changes only in a step that completes a line, and current is
\* empty after such a step
C16_Step ==
    /\ Len(emitted') = Len(emitted) => reference' = reference
    /\ Len(emitted') > Len(emitted) => reference' = Last(emitted') /\ current' = <<>>

\* C16: after each completed line reference is the sequence just passed to
\* the callback and current is empty; reference is not modified while a line
\* is decoded; before the first line reference is empty
C16_ReferenceSwap == []C16_Inv /\ [][C16_Step]_vars

\* the second line is in progress over a reference line that is not empty
C16_Witness ==
    /\ pc = "line" /\ y = 1 /\ reference # <<>> /\ reference = emitted[1]
    /\ current # <<>>

\* C17: a mode step that leaves the line unfinished does not decrease a0,
\* unless it is a Vertical step with a negative delta
C17_A0Monotone ==
    [][ModeStep /\ pc' = "line" /\ y' = y
          /\ ~(ModeKind = "Vertical" /\ ModeNow.val.delta < 0)
        => a0' >= a0]_vars

\* the sum of the table values up to and including the first one below 64,
\* in the integers; None if the table fails before that
RECURSIVE RunSum(_, _, _)
RunSum(table, bits, sum) ==
    LET r == Decode(table, bits, TRUE) IN
    IF r.st # "ok" THEN None
    ELSE IF r.val < 64 THEN Some(sum + r.val)
    ELSE CHOOSE out \in {RunSum(table, rest, acc) : rest \in {r.rest}, acc \in {sum + r.val}} : TRUE

\* C18: with_markup returns the exact sum of the values up to and including
\* the first one below 64, whatever the length of the chain, and None if the
\* table fails before a terminating code; the accumulator does not overflow
C18_ExactSum ==
    [][pc = "run" => result' # "panic" /\ run' = RunSum(LongTable, input, 0)]_vars

Even(n) == n % 2 = 0

\* at the head of the line loop color is White exactly when the number of
\* positions pushed to current is even
C19_Inv == pc = "line" => (color = White <=> Even(Len(current)))

\* a step that completes a line: the color held by the step agrees with the
\* parity of the line passed to the callback
C19_EndAgrees == color = White <=> Even(Len(Last(emitted')))

\* C19 as stated: the parity invariant, and the color held when a line ends
\* agrees with the parity of the emitted line
C19_Original ==
    []C19_Inv /\ [][Len(emitted') > Len(emitted) => C19_EndAgrees]_vars

\* C19: the parity invariant; the color held when a line ends agrees with the
\* parity of the emitted line unless the line is ended by a Horizontal step,
\* which pushes a1 without flipping color, and then it disagrees
C19_ColorParity ==
    /\ []C19_Inv
    /\ [][Len(emitted') > Len(emitted) =>
            (C19_EndAgrees <=> ModeKind # "Horizontal")]_vars

\* the first line was ended by a Horizontal step whose a1 reached the margin:
\* one position, an odd count, and the step held White
C19_Witness ==
    /\ pc = "line" /\ y = 1 /\ Len(emitted[1]) = 1 /\ emitted[1][1] >= width
    /\ color = White /\ Even(Len(current))

\* a step of the decoder, as opposed to a step of the input iterator
DecoderStep == fed' = fed /\ closed' = closed

\* decode_g4: a pass of the line loop consumes a bit or leaves the loop for
\* good; decode_g3: a pass of the run loop consumes a bit, and a pass of loop
\* 'a consumes the EOL of its line before the next pass can start
C20_Progress ==
    /\ pc = "line" /\ DecoderStep => consumed' > consumed \/ pc' \in {"tail", "done"}
    /\ pc = "g3_run" /\ DecoderStep => consumed' > consumed \/ pc' = "done"
    /\ pc = "g3_run" /\ pc' = "g3_eols" => consumed' >= consumed + Len(EOL)
    /\ pc = "g3_eols" /\ DecoderStep =>
         consumed' >= consumed + Len(EOL) \/ pc' = "g3_run" \/ pc' = "done"

\* how far the running function is from its end, within one position of the
\* reader: loop 'a goes from its EOL test back to its run loop
Rank ==
    CASE pc = "g3_start" -> 3
      [] pc \in {"line", "g3_eols"} -> 2
      [] pc \in {"tail", "g3_run"} -> 1
      [] OTHER -> 0

\* every step moves on in a well-founded order: the iterator delivers one of
\* its finitely many chunks or ends, or the reader consumes bits that were
\* delivered, or the function moves towards its end without reading
C20_Variant ==
    \/ fed' > fed
    \/ fed' = fed /\ ~closed /\ closed'
    \/ DecoderStep /\ consumed' > consumed
    \/ DecoderStep /\ consumed' = consumed /\ Rank' < Rank

\* the bits consumed are bits delivered: a chunk has at most Len(EOL) bits
C20_Inv == consumed + Len(input) <= Len(EOL) * fed

\* C20: on a finite input decode_g4 and decode_g3 come to an end: every pass
\* of the line loop consumes at least one bit or leaves the loop, and every
\* pass of decode_g3's loop 'a consumes at least one EOL, so that no step can
\* be repeated for ever
C20_Terminates == []C20_Inv /\ [][C20_Progress /\ C20_Variant]_vars

\* a Pass step at the start of the first line has left a0 at 0, four bits on
C20_Witness ==
    /\ pc = "line" /\ y = 0 /\ ~start_of_row /\ a0 = 0 /\ current = <<>>
    /\ consumed >= 4 /\ outer = "in"

====
